---- MODULE Spec2Model ----
(***************************************************************************)
(* Model of the twins scenario generator (package twins: NewGenerator,     *)
(* Shuffle, NextScenario and the partition enumerators) and of             *)
(* consensusBase (StopVoting, Propose, OnPropose, commit) with the         *)
(* certificate checks of package crypto it calls.                          *)
(*                                                                         *)
(* Go slices are sequences; Go index i is TLA+ index i+1.  uint8           *)
(* arithmetic is taken modulo 256.  A runtime panic (index out of range,   *)
(* rand.Intn(0), nil dereference) is a result of kind "panic" that leaves  *)
(* the object as it was when the panic was raised.                         *)
(***************************************************************************)
EXTENDS Integers, Sequences, FiniteSets, TLC

(* ---------------------------- bounds ----------------------------------- *)
MaxReplicas == 3
MaxTwins == 2
MaxPartitions == 2
MaxRounds == 2
NumSeeds == 2
MaxCalls == 10
MaxShuffles == 2
MaxDetCalls == 3
MaxN == 5
MaxK == 4
MaxMinSize == 6
MaxPairs == 2
MaxSlot == 2
MaxTotalK == 2
MaxView == 2
MaxBlocks == 3

(* ---------------------------- constants -------------------------------- *)
Uint8 == 256
RandMul == 75
RandInc == 74
RandMod == 65537

VARIABLES cfg, gen, hist, sizeIn, sizeOut, validIn, validOut, cs, mods, obs

vars == <<cfg, gen, hist, sizeIn, sizeOut, validIn, validOut, cs, mods, obs>>

GenIds == {1, 2}
Seeds == 1..NumSeeds

(* ---------------------------- helpers ---------------------------------- *)
min(a, b) == IF a < b THEN a ELSE b

NodeID(r, n) == [ReplicaID |-> r, NetworkID |-> n]

ZeroView == [Leader |-> 0, PartitionScenario |-> <<>>]

RECURSIVE Pow(_, _)
Pow(b, e) == IF e = 0 THEN 1 ELSE b * Pow(b, e - 1)

RECURSIVE SumSeq(_)
SumSeq(s) == IF s = <<>> THEN 0 ELSE Head(s) + SumSeq(Tail(s))

\* concatenation of a sequence of sequences (by halves, to keep recursion shallow).
RECURSIVE Flatten(_)
Flatten(ss) ==
    IF Len(ss) = 0 THEN <<>>
    ELSE IF Len(ss) = 1 THEN ss[1]
    ELSE LET h == Len(ss) \div 2
         IN  Flatten(SubSeq(ss, 1, h)) \o Flatten(SubSeq(ss, h + 1, Len(ss)))

SeqToSet(s) == {s[i] : i \in DOMAIN s}

(* ------------------- partition size enumerator ------------------------- *)
RECURSIVE genPartitionSizesRecursive(_, _, _, _)
RECURSIVE genPartitionSizesLoop(_, _, _, _, _)

\* s[i] = n; emit when i = 0 or s[i-1] >= n; then decrement and recurse.
genPartitionSizesRecursive(i, n, minSize, state) ==
    LET s    == [state EXCEPT ![i + 1] = n]
        emit == IF i = 0 \/ s[i] >= n THEN <<s>> ELSE <<>>
        m0   == (n - 1) % Uint8
        m    == IF i > 0 THEN min(m0, s[i]) ELSE m0
    IN  IF i + 1 < Len(s)
        THEN emit \o genPartitionSizesLoop(i, n, minSize, s, m)
        ELSE emit

\* the condition of the for loop of genPartitionSizesRecursive.
loopCondition(i, m, minSize) == (i = 0 /\ m >= minSize) \/ (i # 0 /\ m > 0)

\* the for loop of genPartitionSizesRecursive, from m downwards: iteration j
\* runs with m - j + 1, as long as the condition held for every value so far.
genPartitionSizesLoop(i, n, minSize, s, m) ==
    LET runs == {c \in 0..(m + 1) :
                    \A j \in 1..c : loopCondition(i, m - j + 1, minSize)}
        count == CHOOSE c \in runs : \A d \in runs : d <= c
    IN  Flatten([j \in 1..count |->
            genPartitionSizesRecursive(i + 1, (n - (m - j + 1)) % Uint8, minSize,
                                       [s EXCEPT ![i + 1] = m - j + 1])])

genPartitionSizes(n, k, minSize) ==
    genPartitionSizesRecursive(0, n, minSize, [j \in 1..k |-> 0])

\* m-- takes the uint8 m through every value in turn, so the loop at level i
\* ends only if some value makes its condition false.
loopEnds(i, minSize) == \E m \in 0..(Uint8 - 1) : ~loopCondition(i, m, minSize)

\* how a call genPartitionSizes(n, k, minSize) ends: s[0] = n on an empty
\* slice is an index-out-of-range panic; a loop that is entered and cannot
\* end appends for ever; otherwise the sizes are returned.
genPartitionSizesOutcome(n, k, minSize) ==
    IF k = 0 THEN [kind |-> "panic", sizes |-> <<>>]
    ELSE IF 1 < k /\ ~loopEnds(0, minSize) THEN [kind |-> "diverges", sizes |-> <<>>]
    ELSE [kind |-> "ok", sizes |-> genPartitionSizes(n, k, minSize)]

(* ------------------- twin assignment enumerators ----------------------- *)
\* all pairs <<i, j>> with 0 <= i <= j < n, in lexicographic order.
generateTwinPartitionPairs(n) ==
    Flatten([i \in 1..n |-> [j \in 1..(n - i + 1) |-> <<i - 1, i + j - 2>>]])

\* as isValidFrom, but the second twin of a pair takes no slot.
RECURSIVE isValidFromFirstOnly(_, _, _)
isValidFromFirstOnly(twinAssignments, ps, i) ==
    IF i > Len(twinAssignments) THEN TRUE
    ELSE LET first  == twinAssignments[i][1]
             second == twinAssignments[i][2]
         IN  IF first >= Len(ps) \/ ps[first + 1] = 0 THEN FALSE
             ELSE LET ps1 == [ps EXCEPT ![first + 1] = @ - 1]
                  IN  IF second >= Len(ps1) \/ ps1[second + 1] = 0 THEN FALSE
                      ELSE isValidFromFirstOnly(twinAssignments, ps1, i + 1)

\* the loop of isValidTwinAssignment from pair i on; ps is the local copy.
RECURSIVE isValidFrom(_, _, _)
isValidFrom(twinAssignments, ps, i) ==
    IF i > Len(twinAssignments) THEN TRUE
    ELSE LET first  == twinAssignments[i][1]
             second == twinAssignments[i][2]
         IN  IF first >= Len(ps) \/ ps[first + 1] = 0 THEN FALSE
             ELSE LET ps1 == [ps EXCEPT ![first + 1] = @ - 1]
                  IN  IF second >= Len(ps1) \/ ps1[second + 1] = 0 THEN FALSE
                      ELSE isValidFrom(twinAssignments,
                                       [ps1 EXCEPT ![second + 1] = @ - 1], i + 1)

\* ps is a copy of partitionSizes; the loop works on the copy.
isValidTwinAssignment(twinAssignments, partitionSizes) ==
    LET ps == [j \in 1..Len(partitionSizes) |-> partitionSizes[j]]
    IN  isValidFrom(twinAssignments, ps, 1)

RECURSIVE cartesianProduct(_)
cartesianProduct(input) ==
    IF Len(input) = 0 THEN << <<>> >>
    ELSE LET r == cartesianProduct(Tail(input))
         IN  Flatten([vi \in 1..Len(input[1]) |->
                        [pi \in 1..Len(r) |-> <<input[1][vi]>> \o r[pi]]])

(* ------------------- partition scenario builder ------------------------ *)
\* place twins[twin], twins[twin+1], ... into the partitions named by ta.
RECURSIVE placeTwins(_, _, _)
placeTwins(parts, targets, twins) ==
    IF targets = <<>> THEN parts
    ELSE placeTwins([parts EXCEPT ![Head(targets) + 1] = @ \cup {Head(twins)}],
                    Tail(targets), Tail(twins))

\* as fillNodes, but the cursor into nodes restarts at 0 for every partition.
RECURSIVE fillNodesMut(_, _, _, _)
fillNodesMut(parts, sz, nodes, kk) ==
    IF kk > Len(parts) THEN parts
    ELSE LET need == (sz[kk] - Cardinality(parts[kk])) % Uint8
             take == min(need, Len(nodes))
         IN  fillNodesMut([parts EXCEPT ![kk] = @ \cup SeqToSet(SubSeq(nodes, 1, take))],
                          sz, nodes, kk + 1)

\* fill partition kk, kk+1, ... up to its size from nodes, sharing the cursor.
RECURSIVE fillNodes(_, _, _, _)
fillNodes(parts, sz, nodes, kk) ==
    IF kk > Len(parts) THEN parts
    ELSE LET need == (sz[kk] - Cardinality(parts[kk])) % Uint8
             take == min(need, Len(nodes))
         IN  fillNodes([parts EXCEPT ![kk] = @ \cup SeqToSet(SubSeq(nodes, 1, take))],
                       sz, SubSeq(nodes, take + 1, Len(nodes)), kk + 1)

\* the cursor node after the fill loop has handled partitions kk, kk+1, ...
RECURSIVE fillCursor(_, _, _, _)
fillCursor(parts, sz, node, kk) ==
    IF kk > Len(parts) THEN node
    ELSE fillCursor(parts, sz,
                    node + ((sz[kk] - Cardinality(parts[kk])) % Uint8), kk + 1)

\* as buildPartitions, but the twins are not placed.
buildPartitionsNoTwins(sz, ta, twins, nodes, k) ==
    fillNodes([j \in 1..k |-> {}], sz, nodes, 1)

buildPartitions(sz, ta, twins, nodes, k) ==
    fillNodes(placeTwins([j \in 1..k |-> {}], Flatten(ta), twins), sz, nodes, 1)

genPartitionScenarios(twins, nodes, k, minSz) ==
    LET n     == (Len(twins) + Len(nodes)) % Uint8
        pairs == Len(twins) \div 2
        twinAssignments ==
            IF pairs > 0
            THEN cartesianProduct([i \in 1..pairs |-> generateTwinPartitionPairs(k)])
            ELSE <<>>
        sizes == genPartitionSizes(n, k, minSz)
        perSize(i) ==
            Flatten([j \in 1..Len(twinAssignments) |->
                IF isValidTwinAssignment(twinAssignments[j], sizes[i])
                THEN << buildPartitions(sizes[i], twinAssignments[j], twins, nodes, k) >>
                ELSE <<>>])
    IN  Flatten([i \in 1..Len(sizes) |-> perSize(i)])

\* the iterations of genPartitionScenarios' loop that append a scenario: the
\* size vector and twin assignment of the iteration, the partitions built and
\* the value of the cursor node when the fill loop ends.
genPartitionScenarioBuilds(twins, nodes, k, minSz) ==
    LET n     == (Len(twins) + Len(nodes)) % Uint8
        pairs == Len(twins) \div 2
        twinAssignments ==
            IF pairs > 0
            THEN cartesianProduct([i \in 1..pairs |-> generateTwinPartitionPairs(k)])
            ELSE <<>>
        sizes == genPartitionSizes(n, k, minSz)
        perSize(i) ==
            Flatten([j \in 1..Len(twinAssignments) |->
                IF isValidTwinAssignment(twinAssignments[j], sizes[i])
                THEN << [sizes |-> sizes[i],
                         twinAssignment |-> twinAssignments[j],
                         partitions |-> buildPartitions(sizes[i], twinAssignments[j],
                                                        twins, nodes, k),
                         node |-> fillCursor(placeTwins([l \in 1..k |-> {}],
                                                        Flatten(twinAssignments[j]), twins),
                                             sizes[i], 0, 1)] >>
                ELSE <<>>])
    IN  Flatten([i \in 1..Len(sizes) |-> perSize(i)])

(* ------------------- NewGenerator -------------------------------------- *)
\* as assignIDs, but without the networkID++ between the two twins.
RECURSIVE assignIDsSameNet(_, _)
assignIDsSameNet(replicas, numTwins) ==
    IF replicas = 0
    THEN [twins |-> <<>>, nodes |-> <<>>, replicaIDs |-> <<>>,
          networkID |-> 1, remainingTwins |-> numTwins]
    ELSE LET a   == assignIDsSameNet(replicas - 1, numTwins)
             rid == replicas
         IN  IF a.remainingTwins > 0
             THEN [twins |-> a.twins \o <<NodeID(rid, a.networkID),
                                          NodeID(rid, a.networkID)>>,
                   nodes |-> a.nodes,
                   replicaIDs |-> Append(a.replicaIDs, rid),
                   networkID |-> a.networkID + 1,
                   remainingTwins |-> a.remainingTwins - 1]
             ELSE [twins |-> a.twins,
                   nodes |-> Append(a.nodes, NodeID(rid, a.networkID)),
                   replicaIDs |-> Append(a.replicaIDs, rid),
                   networkID |-> a.networkID + 1,
                   remainingTwins |-> a.remainingTwins]

\* the id assignment loop: state after the iteration for replica i.
RECURSIVE assignIDs(_, _)
assignIDs(replicas, numTwins) ==
    IF replicas = 0
    THEN [twins |-> <<>>, nodes |-> <<>>, replicaIDs |-> <<>>,
          networkID |-> 1, remainingTwins |-> numTwins]
    ELSE LET a   == assignIDs(replicas - 1, numTwins)
             rid == replicas
         IN  IF a.remainingTwins > 0
             THEN [twins |-> a.twins \o <<NodeID(rid, a.networkID),
                                          NodeID(rid, a.networkID + 1)>>,
                   nodes |-> a.nodes,
                   replicaIDs |-> Append(a.replicaIDs, rid),
                   networkID |-> a.networkID + 2,
                   remainingTwins |-> a.remainingTwins - 1]
             ELSE [twins |-> a.twins,
                   nodes |-> Append(a.nodes, NodeID(rid, a.networkID)),
                   replicaIDs |-> Append(a.replicaIDs, rid),
                   networkID |-> a.networkID + 1,
                   remainingTwins |-> a.remainingTwins]

\* as NewGenerator, but with the two loops over partition scenarios and
\* replica ids nested the other way round.
NewGeneratorLeaderSlow(replicas, numTwins, partitions, rounds) ==
    LET a  == assignIDs(replicas, numTwins)
        partitionScenarios == genPartitionScenarios(a.twins, a.nodes, partitions, 1)
    IN  [allNodes   |-> a.twins \o a.nodes,
         rounds     |-> rounds,
         partitions |-> partitions,
         indices    |-> [i \in 1..rounds |-> 0],
         offsets    |-> [i \in 1..rounds |-> 0],
         leadersPartitions |->
             Flatten([r \in 1..Len(a.replicaIDs) |->
                        [p \in 1..Len(partitionScenarios) |->
                            [Leader |-> a.replicaIDs[r],
                             PartitionScenario |-> partitionScenarios[p]]]])]

NewGenerator(replicas, numTwins, partitions, rounds) ==
    LET a  == assignIDs(replicas, numTwins)
        partitionScenarios == genPartitionScenarios(a.twins, a.nodes, partitions, 1)
    IN  [allNodes   |-> a.twins \o a.nodes,
         rounds     |-> rounds,
         partitions |-> partitions,
         indices    |-> [i \in 1..rounds |-> 0],
         offsets    |-> [i \in 1..rounds |-> 0],
         leadersPartitions |->
             Flatten([p \in 1..Len(partitionScenarios) |->
                        [r \in 1..Len(a.replicaIDs) |->
                            [Leader |-> a.replicaIDs[r],
                             PartitionScenario |-> partitionScenarios[p]]]])]

(* ------------------- math/rand stand-in -------------------------------- *)
\* rand.New(rand.NewSource(seed)): a deterministic stream fixed by the seed.
\* The generator is a linear congruential one; r.Intn(n) is the next state
\* reduced modulo n.
RandNext(x) == (x * RandMul + RandInc) % RandMod

NewSource(seed) == seed % RandMod

swap(lp, i, j) == [lp EXCEPT ![i] = lp[j], ![j] = lp[i]]

\* one iteration of r.Shuffle's loop at Go index st.i: j = r.Intn(i+1); swap(i, j).
shuffleStep(st) ==
    IF st.i <= 0 THEN st
    ELSE LET r1 == RandNext(st.r)
             j  == r1 % (st.i + 1)
         IN  [lp |-> swap(st.lp, st.i + 1, j + 1), i |-> st.i - 1, r |-> r1]

\* r.Shuffle(n, swap): Fisher-Yates from index n-1 down to 1 (the loop is
\* taken eight iterations at a time to keep the recursion shallow).
RECURSIVE randShuffleFrom(_)
randShuffleFrom(st) ==
    IF st.i <= 0 THEN st
    ELSE randShuffleFrom(shuffleStep(shuffleStep(shuffleStep(shuffleStep(
             shuffleStep(shuffleStep(shuffleStep(shuffleStep(st)))))))))

randShuffle(lp, i, r) == randShuffleFrom([lp |-> lp, i |-> i, r |-> r])

\* as drawOffsets, but drawing from [0, n] instead of [0, n).
RECURSIVE drawOffsetsWide(_, _, _, _)
drawOffsetsWide(offsets, from, n, r) ==
    IF from > Len(offsets) THEN offsets
    ELSE LET r1 == RandNext(r)
         IN  drawOffsetsWide([offsets EXCEPT ![from] = r1 % (n + 1)], from + 1, n, r1)

\* offsets[i] = r.Intn(n) for i = from .. Len(offsets), in order.
RECURSIVE drawOffsets(_, _, _, _)
drawOffsets(offsets, from, n, r) ==
    IF from > Len(offsets) THEN offsets
    ELSE LET r1 == RandNext(r)
         IN  drawOffsets([offsets EXCEPT ![from] = r1 % n], from + 1, n, r1)

(* ------------------- Generator.Shuffle --------------------------------- *)
\* as ShuffleGen, but the drawn offsets are added to the previous ones.
ShuffleGenAccum(g, seed) ==
    LET n  == Len(g.leadersPartitions)
        sh == randShuffle(g.leadersPartitions, n - 1, NewSource(seed))
        d  == drawOffsets(g.offsets, 1, n, sh.r)
    IN  IF n = 0 /\ Len(g.offsets) > 0
        THEN [g |-> g, kind |-> "panic"]
        ELSE [g |-> [g EXCEPT !.leadersPartitions = sh.lp,
                              !.offsets = [i \in DOMAIN d |-> (g.offsets[i] + d[i]) % n]],
              kind |-> "done"]

\* result of Shuffle(seed) on generator value g: the new generator and
\* whether rand.Intn panicked (len(leadersPartitions) = 0 with rounds > 0).
ShuffleGen(g, seed) ==
    LET n  == Len(g.leadersPartitions)
        sh == randShuffle(g.leadersPartitions, n - 1, NewSource(seed))
    IN  IF n = 0 /\ Len(g.offsets) > 0
        THEN [g |-> g, kind |-> "panic"]
        ELSE [g |-> [g EXCEPT !.leadersPartitions = sh.lp,
                              !.offsets = drawOffsets(g.offsets, 1, n, sh.r)],
              kind |-> "done"]

(* ------------------- Generator.NextScenario ---------------------------- *)
\* index of the view of round i (1-based): ii + offsets[i], minus len once.
viewIndex(g, i) ==
    LET index == g.indices[i] + g.offsets[i]
    IN  IF index >= Len(g.leadersPartitions)
        THEN index - Len(g.leadersPartitions) ELSE index

\* p := make([]View, rounds), filled for i in range g.indices.
buildViews(g) ==
    [i \in 1..g.rounds |->
        IF i <= Len(g.indices)
        THEN g.leadersPartitions[viewIndex(g, i) + 1]
        ELSE ZeroView]

buildPanics(g) ==
    \E i \in 1..Len(g.indices) :
        viewIndex(g, i) < 0 \/ viewIndex(g, i) >= Len(g.leadersPartitions)

\* as odometer, but counting from Go index 0 upwards to index i.
RECURSIVE odometerUp(_, _, _, _)
odometerUp(indices, j, i, n) ==
    IF j > i THEN [indices |-> indices, ok |-> TRUE]
    ELSE LET inc == [indices EXCEPT ![j + 1] = @ + 1]
         IN  IF inc[j + 1] < n THEN [indices |-> inc, ok |-> TRUE]
             ELSE IF j >= i THEN [indices |-> <<>>, ok |-> FALSE]
             ELSE odometerUp([inc EXCEPT ![j + 1] = 0], j + 1, i, n)

odometerFirstDigit(indices, i, n) == odometerUp(indices, 0, i, n)

\* the odometer loop from Go index i downwards; ok = FALSE is "return s, false".
RECURSIVE odometer(_, _, _)
odometer(indices, i, n) ==
    IF i < 0 THEN [indices |-> indices, ok |-> TRUE]
    ELSE LET inc == [indices EXCEPT ![i + 1] = @ + 1]
         IN  IF inc[i + 1] < n THEN [indices |-> inc, ok |-> TRUE]
             ELSE IF i <= 0 THEN [indices |-> <<>>, ok |-> FALSE]
             ELSE odometer([inc EXCEPT ![i + 1] = 0], i - 1, n)

NoScenario == [kind |-> "nomore", nodes |-> <<>>, views |-> <<>>]
PanicResult == [kind |-> "panic", nodes |-> <<>>, views |-> <<>>]

\* as NextScenarioGen, but the offsets are folded into the indices once used.
NextScenarioGenFold(g) ==
    IF buildPanics(g) THEN [g |-> g, res |-> PanicResult]
    ELSE IF g.rounds >= 1 /\ Len(g.indices) < g.rounds
    THEN [g |-> g, res |-> PanicResult]
    ELSE LET o == odometer(g.indices, g.rounds - 1, Len(g.leadersPartitions))
         IN  [g   |-> [g EXCEPT !.indices = o.indices,
                                !.offsets = [i \in DOMAIN g.offsets |-> 0]],
              res |-> IF o.ok
                      THEN [kind |-> "ok", nodes |-> g.allNodes, views |-> buildViews(g)]
                      ELSE NoScenario]

\* result of NextScenario on generator value g: new generator and result.
NextScenarioGen(g) ==
    IF buildPanics(g) THEN [g |-> g, res |-> PanicResult]
    ELSE IF g.rounds >= 1 /\ Len(g.indices) < g.rounds
    THEN [g |-> g, res |-> PanicResult]
    ELSE LET o == odometer(g.indices, g.rounds - 1, Len(g.leadersPartitions))
         IN  [g   |-> [g EXCEPT !.indices = o.indices],
              res |-> IF o.ok
                      THEN [kind |-> "ok", nodes |-> g.allNodes, views |-> buildViews(g)]
                      ELSE NoScenario]

(* ------------------- state machine ------------------------------------- *)
Configs ==
    [replicas : 1..MaxReplicas, numTwins : 0..MaxTwins,
     partitions : 1..MaxPartitions, rounds : 0..MaxRounds]

(* ------------------- consensusBase: blocks and certificates ------------ *)
GenesisHash == 0
NoHash == -1
Genesis == [hash |-> GenesisHash, parent |-> NoHash, view |-> 0]

\* a nil *Block.
NoBlock == [hash |-> NoHash, parent |-> NoHash, view |-> 0]

\* consensus.QuorumCert{}: the zero value VerifyAggregateQC returns on failure.
ZeroQC == [hash |-> NoHash, view |-> 0, sig |-> FALSE]

\* the certificates of the inputs: one for the genesis block, and a valid and
\* a forged one for block 1 in view 1.
QuorumCerts ==
    {[hash |-> GenesisHash, view |-> 0, sig |-> TRUE],
     [hash |-> 1, view |-> 1, sig |-> TRUE],
     [hash |-> 1, view |-> 1, sig |-> FALSE]}

\* an AggregateQC: the QCs of its map and whether its signature verifies.
AggregateQCs ==
    [qcs : {q \in SUBSET QuorumCerts : Cardinality(q) <= 2}, sigOk : BOOLEAN]

NoAggQC == [qcs |-> {}, sigOk |-> FALSE, nil |-> TRUE]

\* the blocks of the inputs: one chain above the genesis block, the block of
\* hash h extending the one of hash h - 1, each in any view.
Blocks ==
    {b \in [hash : 1..MaxBlocks, parent : 0..MaxBlocks, view : 1..MaxView] :
        b.parent = b.hash - 1}

\* New: lastVote 0, bExec the genesis block.
NewConsensus == [lastVote |-> 0, bExec |-> Genesis]

\* what is recorded of the calls: the views voted in, the highest view given
\* to StopVoting, and of the last call how it ended and what its aggregate QC
\* block found.
NoLast == [kind |-> "none", agg |-> FALSE, aggOk |-> FALSE, qcEq |-> FALSE]

NoObs == [voted |-> <<>>, stopped |-> 0, last |-> NoLast]

NoSizeIn == [n |-> 0, k |-> 0, minSize |-> 0]
NoSizeOut == [done |-> FALSE, kind |-> "none", sizes |-> <<>>]
NoValidIn == [ta |-> <<>>, sz |-> <<>>]
NoValidOut == [done |-> FALSE, ok |-> FALSE, partitionSizes |-> <<>>]

NumNext(g) == Cardinality({i \in DOMAIN hist[g] : hist[g][i].op = "Next"})
NumShuffle(g) == Cardinality({i \in DOMAIN hist[g] : hist[g][i].op = "Shuffle"})

Init ==
    /\ cfg \in Configs
    /\ gen = [g \in GenIds |->
                NewGenerator(cfg.replicas, cfg.numTwins, cfg.partitions, cfg.rounds)]
    /\ hist = [g \in GenIds |-> <<>>]
    /\ sizeIn = NoSizeIn
    /\ sizeOut = NoSizeOut
    /\ validIn = NoValidIn
    /\ validOut = NoValidOut
    /\ cs = NewConsensus
    /\ mods = [useAggQC |-> FALSE, blocks |-> {Genesis}, executed |-> <<>>]
    /\ obs = NoObs

\* as Shuffle, but the random source is not the one seeded by the argument.
ShuffleUnseeded(g, seed) ==
    \E other \in Seeds :
        LET r == ShuffleGen(gen[g], other)
        IN  /\ gen' = [gen EXCEPT ![g] = r.g]
            /\ hist' = [hist EXCEPT ![g] = Append(@,
                          [op |-> "Shuffle", seed |-> seed, pre |-> gen[g].indices,
                           p |-> <<>>,
                           res |-> [kind |-> r.kind, nodes |-> <<>>, views |-> <<>>]])]
            /\ UNCHANGED <<cfg, sizeIn, sizeOut, validIn, validOut, cs, mods, obs>>

\* g.Shuffle(seed); hist records the call.
Shuffle(g, seed) ==
    LET r == ShuffleGen(gen[g], seed)
    IN  /\ gen' = [gen EXCEPT ![g] = r.g]
        /\ hist' = [hist EXCEPT ![g] = Append(@,
                      [op |-> "Shuffle", seed |-> seed, pre |-> gen[g].indices,
                       p |-> <<>>,
                       res |-> [kind |-> r.kind, nodes |-> <<>>, views |-> <<>>]])]
        /\ UNCHANGED <<cfg, sizeIn, sizeOut, validIn, validOut, cs, mods, obs>>

\* g.NextScenario(); hist records the call, g.indices before it, the view
\* vector p built by the call, and the returned (s, ok).
NextScenario(g) ==
    LET r == NextScenarioGen(gen[g])
    IN  /\ gen' = [gen EXCEPT ![g] = r.g]
        /\ hist' = [hist EXCEPT ![g] = Append(@,
                      [op |-> "Next", seed |-> 0, pre |-> gen[g].indices,
                       p |-> IF buildPanics(gen[g]) THEN <<>> ELSE buildViews(gen[g]),
                       res |-> r.res])]
        /\ UNCHANGED <<cfg, sizeIn, sizeOut, validIn, validOut, cs, mods, obs>>

\* the harness shuffles before iteration begins.
CallShuffle ==
    /\ NumShuffle(1) < MaxShuffles
    /\ NumNext(1) = 0
    /\ \E seed \in Seeds : Shuffle(1, seed)

CallNextScenario ==
    /\ NumNext(1) < MaxCalls
    /\ NextScenario(1)

Next == CallShuffle \/ CallNextScenario

Spec == Init /\ [][Next]_vars

(* ------------- two generators built from the same parameters ----------- *)
ShuffleOnce(g) ==
    /\ Len(hist[g]) = 0
    /\ \E seed \in Seeds : Shuffle(g, seed)

IterateGenerator(g) ==
    /\ NumNext(g) < MaxDetCalls
    /\ NextScenario(g)

NextDet == \E g \in GenIds : ShuffleOnce(g) \/ IterateGenerator(g)

SpecDet == Init /\ [][NextDet]_vars

(* ------------- the partition size enumerator on its own ---------------- *)
InitSizes ==
    /\ cfg = [replicas |-> 1, numTwins |-> 1, partitions |-> 1, rounds |-> 1]
    /\ gen = [g \in GenIds |-> NewGenerator(1, 1, 1, 1)]
    /\ hist = [g \in GenIds |-> <<>>]
    /\ sizeIn \in [n : 1..MaxN, k : 1..MaxK, minSize : 1..MaxMinSize]
    /\ sizeOut = NoSizeOut
    /\ validIn = NoValidIn
    /\ validOut = NoValidOut
    /\ cs = NewConsensus
    /\ mods = [useAggQC |-> FALSE, blocks |-> {Genesis}, executed |-> <<>>]
    /\ obs = NoObs

CallGenPartitionSizes ==
    /\ ~sizeOut.done
    /\ LET out == genPartitionSizesOutcome(sizeIn.n, sizeIn.k, sizeIn.minSize)
       IN  sizeOut' = [done |-> TRUE, kind |-> out.kind, sizes |-> out.sizes]
    /\ UNCHANGED <<cfg, gen, hist, sizeIn, validIn, validOut, cs, mods, obs>>

NextSizes == CallGenPartitionSizes

SpecSizes == InitSizes /\ [][NextSizes]_vars

\* the enumerator on every input, the zero ones included.
InitTotal ==
    /\ cfg = [replicas |-> 1, numTwins |-> 1, partitions |-> 1, rounds |-> 1]
    /\ gen = [g \in GenIds |-> NewGenerator(1, 1, 1, 1)]
    /\ hist = [g \in GenIds |-> <<>>]
    /\ sizeIn \in [n : 0..MaxN, k : 0..MaxTotalK, minSize : 0..MaxMinSize]
    /\ sizeOut = NoSizeOut
    /\ validIn = NoValidIn
    /\ validOut = NoValidOut
    /\ cs = NewConsensus
    /\ mods = [useAggQC |-> FALSE, blocks |-> {Genesis}, executed |-> <<>>]
    /\ obs = NoObs

SpecTotal == InitTotal /\ [][NextSizes]_vars

(* ------------- the twin assignment filter on its own -------------------- *)
TwinAssignmentInputs ==
    UNION {[1..l -> (0..MaxPartitions) \X (0..MaxPartitions)] : l \in 0..MaxPairs}

PartitionSizesInputs ==
    UNION {[1..l -> 0..MaxSlot] : l \in 1..MaxPartitions}

InitValid ==
    /\ cfg = [replicas |-> 1, numTwins |-> 1, partitions |-> 1, rounds |-> 1]
    /\ gen = [g \in GenIds |-> NewGenerator(1, 1, 1, 1)]
    /\ hist = [g \in GenIds |-> <<>>]
    /\ sizeIn = NoSizeIn
    /\ sizeOut = NoSizeOut
    /\ validIn \in [ta : TwinAssignmentInputs, sz : PartitionSizesInputs]
    /\ validOut = NoValidOut
    /\ cs = NewConsensus
    /\ mods = [useAggQC |-> FALSE, blocks |-> {Genesis}, executed |-> <<>>]
    /\ obs = NoObs

\* the caller's slice after the call is the argument: only the copy ps is
\* written by the callee.
CallIsValidTwinAssignment ==
    /\ ~validOut.done
    /\ validOut' = [done |-> TRUE,
                    ok |-> isValidTwinAssignment(validIn.ta, validIn.sz),
                    partitionSizes |-> validIn.sz]
    /\ UNCHANGED <<cfg, gen, hist, sizeIn, sizeOut, validIn, cs, mods, obs>>

NextValid == CallIsValidTwinAssignment

SpecValid == InitValid /\ [][NextValid]_vars

(* ======================= consensusBase ================================= *)
(* A block is its hash, its parent's hash and its view; a block's parent   *)
(* has a smaller hash, so parent links cannot form a cycle.  A quorum      *)
(* certificate is the hash and view it certifies and whether its signature *)
(* verifies.  The Rules, Acceptor, LeaderRotation, Configuration and the   *)
(* signature check are outside consensusBase: their answers are inputs.    *)
\* BlockChain().Get(hash): the stored blocks with that hash (none or one).
Get(blocks, hash) == {b \in blocks : b.hash = hash}

\* VerifyQuorumCert: a QC for the genesis block verifies, any other one by
\* its signature.
VerifyQuorumCert(qc) == qc.hash = GenesisHash \/ qc.sig

\* VerifyAggregateQC: the results the call can have.  highQC is a QC of
\* highest view; among several of that view the map's iteration order
\* decides.  With an empty map highQC stays nil and is dereferenced when the
\* signature verifies.
VerifyAggregateQC(aggQC) ==
    IF aggQC.qcs = {}
    THEN IF aggQC.sigOk THEN {[kind |-> "panic", ok |-> FALSE, highQC |-> ZeroQC]}
         ELSE {[kind |-> "ok", ok |-> FALSE, highQC |-> ZeroQC]}
    ELSE {IF aggQC.sigOk /\ VerifyQuorumCert(highQC)
          THEN [kind |-> "ok", ok |-> TRUE, highQC |-> highQC]
          ELSE [kind |-> "ok", ok |-> FALSE, highQC |-> ZeroQC] :
            highQC \in {q \in aggQC.qcs : \A r \in aggQC.qcs : r.view <= q.view}}

\* the stored blocks reached from block by parent links, block excluded.
RECURSIVE Ancestors(_, _)
Ancestors(blocks, block) ==
    UNION {{p} \cup Ancestors(blocks, p) : p \in Get(blocks, block.parent)}

\* commit: on st = [bExec, executed], with the blocks stored.
RECURSIVE commit(_, _, _)
commit(st, blocks, block) ==
    IF st.bExec.view < block.view
    THEN LET parents == Get(blocks, block.parent)
             st1 == IF parents # {}
                    THEN commit(st, blocks, CHOOSE p \in parents : TRUE)
                    ELSE st
         IN  [bExec |-> block, executed |-> Append(st1.executed, block.hash)]
    ELSE st

\* as StopVoting, but lastVote is set to view whatever it was.
StopVotingAlways(view) ==
    /\ cs' = [cs EXCEPT !.lastVote = view]
    /\ obs' = [obs EXCEPT !.stopped = IF @ < view THEN view ELSE @,
                          !.last = NoLast]
    /\ UNCHANGED <<mods, cfg, gen, hist, sizeIn, sizeOut, validIn, validOut>>

\* StopVoting(view).
StopVoting(view) ==
    /\ cs' = IF cs.lastVote < view THEN [cs EXCEPT !.lastVote = view] ELSE cs
    /\ obs' = [obs EXCEPT !.stopped = IF @ < view THEN view ELSE @,
                          !.last = NoLast]
    /\ UNCHANGED <<mods, cfg, gen, hist, sizeIn, sizeOut, validIn, validOut>>

\* what OnPropose leaves behind when it returns (or panics) before signing.
Returned(kind, blocks, agg, aggOk, qcEq) ==
    /\ cs' = cs
    /\ mods' = [mods EXCEPT !.blocks = blocks]
    /\ obs' = [obs EXCEPT !.last = [kind |-> kind, agg |-> agg,
                                    aggOk |-> aggOk, qcEq |-> qcEq]]

\* OnPropose from the VerifyQuorumCert check on; agg, aggOk and qcEq are what
\* the aggregate QC block found.  Once the partial certificate is signed
\* lastVote is set, CommitRule names a stored ancestor or nothing, and the
\* vote goes to the event loop, to the next leader or, when that replica is
\* unknown, nowhere: none of the three changes consensusBase.
OnProposeTail(proposal, blocks, agg, aggOk, qcEq) ==
    LET block == proposal.Block
    IN  IF ~VerifyQuorumCert(proposal.qc)
        THEN Returned("return", blocks, agg, aggOk, qcEq)
        ELSE \E ext \in {"VoteRule", "Accept", "CreatePartialCert", "signed"} :
            IF ext \in {"VoteRule", "Accept"}
            THEN Returned("return", blocks, agg, aggOk, qcEq)
            ELSE IF ext = "CreatePartialCert"
            THEN Returned("return", blocks \cup {block}, agg, aggOk, qcEq)
            ELSE LET stored == blocks \cup {block}
                 IN  \E b \in {NoBlock} \cup Ancestors(stored, block) :
                        LET st == IF b # NoBlock
                                  THEN commit([bExec |-> cs.bExec,
                                               executed |-> mods.executed], stored, b)
                                  ELSE [bExec |-> cs.bExec, executed |-> mods.executed]
                        IN  /\ cs' = [lastVote |-> block.view, bExec |-> st.bExec]
                            /\ mods' = [mods EXCEPT !.blocks = stored,
                                                    !.executed = st.executed]
                            /\ obs' = [obs EXCEPT
                                   !.voted = Append(@, block.view),
                                   !.last = [kind |-> "vote", agg |-> agg,
                                             aggOk |-> aggOk, qcEq |-> qcEq]]

\* the body of OnPropose on a proposal, with the blocks stored when it starts.
OnProposeBody(proposal, blocks) ==
    LET block == proposal.Block
    IN  IF ~proposal.fromLeader
        THEN Returned("return", blocks, FALSE, FALSE, FALSE)
        ELSE IF block.view <= cs.lastVote
        THEN Returned("return", blocks, FALSE, FALSE, FALSE)
        ELSE IF mods.useAggQC /\ ~proposal.AggregateQC.nil
        THEN \E r \in VerifyAggregateQC(proposal.AggregateQC) :
                IF r.kind = "panic"
                THEN Returned("panic", blocks, TRUE, FALSE, FALSE)
                ELSE OnProposeTail(proposal, blocks, TRUE, r.ok,
                                   proposal.qc = r.highQC)
        ELSE OnProposeTail(proposal, blocks, FALSE, FALSE, FALSE)

\* a block as it can be delivered or created: one stored under its hash or
\* one whose hash is new.
Deliverable(b) == \A c \in mods.blocks : c.hash = b.hash => c = b

\* what the certificate checks of OnPropose find on a block QC and an
\* aggregate QC: whether the QC verifies and, per possible result of
\* VerifyAggregateQC, whether it succeeded and returned the block's QC.
CertChecks(qc, aggQC) ==
    [valid |-> VerifyQuorumCert(qc),
     nil   |-> aggQC.nil,
     agg   |-> IF aggQC.nil THEN {}
               ELSE {[kind |-> r.kind, ok |-> r.ok, eq |-> qc = r.highQC] :
                        r \in VerifyAggregateQC(aggQC)}]

\* the certificates of the proposals: of all pairs of a QC and an aggregate
\* QC (or none), one pair for every way the certificate checks can come out.
CertInputs ==
    LET all == QuorumCerts \X
                 ({NoAggQC} \cup {[qcs |-> a.qcs, sigOk |-> a.sigOk, nil |-> FALSE] :
                                    a \in AggregateQCs})
    IN  {CHOOSE p \in all : CertChecks(p[1], p[2]) = c :
            c \in {CertChecks(p[1], p[2]) : p \in all}}

\* the proposals: those that OnPropose turns away on the sender or the view
\* alone are represented by the ones that carry the genesis QC and no
\* aggregate QC; with the option off, where the aggregate QC is not read, by
\* the ones without it.
Proposals ==
    UNION {
        IF fromLeader /\ b.view > cs.lastVote
        THEN {[Block |-> b, qc |-> c[1], fromLeader |-> fromLeader,
               AggregateQC |-> c[2]] :
                 c \in {d \in CertInputs : mods.useAggQC \/ d[2].nil}}
        ELSE {[Block |-> b, qc |-> CHOOSE q \in QuorumCerts : q.hash = GenesisHash,
               fromLeader |-> fromLeader, AggregateQC |-> NoAggQC]} :
        b \in {c \in Blocks : Deliverable(c)}, fromLeader \in BOOLEAN}

\* OnPropose(proposal), the handler of a ProposeMsg event.
OnPropose(proposal) ==
    /\ OnProposeBody(proposal, mods.blocks)
    /\ UNCHANGED <<cfg, gen, hist, sizeIn, sizeOut, validIn, validOut>>

\* Propose(cert) once a command is available: the new block extends a stored
\* leaf, is stored, and the proposal is handed to OnPropose.  The aggregate
\* QC is attached only when the option is on.
Propose(proposal) ==
    /\ Get(mods.blocks, proposal.Block.hash) = {}
    /\ Get(mods.blocks, proposal.Block.parent) # {}
    /\ mods.useAggQC \/ proposal.AggregateQC.nil
    /\ OnProposeBody(proposal, mods.blocks \cup {proposal.Block})
    /\ UNCHANGED <<cfg, gen, hist, sizeIn, sizeOut, validIn, validOut>>

InitCons ==
    /\ cfg = [replicas |-> 1, numTwins |-> 1, partitions |-> 1, rounds |-> 1]
    /\ gen = [g \in GenIds |-> NewGenerator(1, 1, 1, 1)]
    /\ hist = [g \in GenIds |-> <<>>]
    /\ sizeIn = NoSizeIn
    /\ sizeOut = NoSizeOut
    /\ validIn = NoValidIn
    /\ validOut = NoValidOut
    /\ cs = NewConsensus
    /\ \E useAggQC \in BOOLEAN :
          mods = [useAggQC |-> useAggQC, blocks |-> {Genesis}, executed |-> <<>>]
    /\ obs = NoObs

CallStopVoting == \E view \in 0..MaxView : StopVoting(view)

CallOnPropose == \E proposal \in Proposals : OnPropose(proposal)

CallPropose == \E proposal \in Proposals : Propose(proposal)

NextCons == CallStopVoting \/ CallOnPropose \/ CallPropose

SpecCons == InitCons /\ [][NextCons]_vars

(* ======================= properties ==================================== *)
LP(g) == gen[g].leadersPartitions

\* the results of the NextScenario calls made on generator g, in call order.
RECURSIVE nextResults(_)
nextResults(h) ==
    IF h = <<>> THEN <<>>
    ELSE IF Head(h).op = "Next" THEN <<Head(h).res>> \o nextResults(Tail(h))
    ELSE nextResults(Tail(h))

Results(g) == nextResults(hist[g])

Legal(c) ==
    /\ 1 <= c.numTwins /\ c.numTwins <= c.replicas
    /\ c.partitions >= 1 /\ c.rounds >= 1

\* C1: for a legal configuration, the number of scenarios returned with
\* ok = true before the first call that does not return one is |LP|^rounds.
C1_DrainCount ==
    Legal(cfg) =>
        \A i \in DOMAIN Results(1) :
            (/\ Results(1)[i].kind # "ok"
             /\ \A j \in 1..(i - 1) : Results(1)[j].kind = "ok")
            => i - 1 = Pow(Len(LP(1)), cfg.rounds)

\* C2: the call in which the carry propagates past indices[0] (all indices at
\* |LP|-1 before the call) returns ok = true with the view vector it built.
C2_LastScenarioReturned ==
    \A i \in DOMAIN hist[1] :
        LET e == hist[1][i]
        IN  (/\ e.op = "Next"
             /\ cfg.rounds >= 1
             /\ Len(e.pre) = cfg.rounds
             /\ Len(LP(1)) >= 1
             /\ \A j \in DOMAIN e.pre : e.pre[j] = Len(LP(1)) - 1)
            => (e.res.kind = "ok" /\ e.res.views = e.p)

\* C3: once a call has reported "no more", every later NextScenario call
\* reports "no more" as well (it neither panics nor returns a scenario).
C3_ExhaustedStaysExhausted ==
    cfg.rounds >= 1 =>
        \A i, j \in DOMAIN Results(1) :
            (i < j /\ Results(1)[i].kind = "nomore") => Results(1)[j].kind = "nomore"

PairwiseDisjoint(ps) ==
    \A a, b \in DOMAIN ps : a # b => ps[a] \cap ps[b] = {}

Covers(ps, nodes) == UNION {ps[a] : a \in DOMAIN ps} = SeqToSet(nodes)

\* C4: in every emitted scenario, the partitions of every view are pairwise
\* disjoint and their union is the scenario's roster.
C4_Coverage ==
    \A i \in DOMAIN Results(1) :
        Results(1)[i].kind = "ok" =>
            \A v \in DOMAIN Results(1)[i].views :
                /\ PairwiseDisjoint(Results(1)[i].views[v].PartitionScenario)
                /\ Covers(Results(1)[i].views[v].PartitionScenario, Results(1)[i].nodes)

\* an emitted view with two non-empty partitions, one of them holding a twin
\* together with a non-twinned node.
C4_Witness ==
    \E i \in DOMAIN Results(1) :
        /\ Results(1)[i].kind = "ok"
        /\ \E v \in DOMAIN Results(1)[i].views :
              LET ps == Results(1)[i].views[v].PartitionScenario
              IN  /\ Len(ps) >= 2 /\ ps[1] # {} /\ ps[2] # {}
                  /\ \E x, y \in ps[1] : x # y /\ x.ReplicaID = y.ReplicaID
                  /\ \E x \in ps[1] : \A y \in ps[1] \ {x} : x.ReplicaID # y.ReplicaID
                  /\ \E x \in ps[2] : \A y \in SeqToSet(Results(1)[i].nodes) \ {x} :
                                         x.ReplicaID # y.ReplicaID

\* C5: with numTwins = 0 every size vector yields exactly one partition
\* scenario, so |LP| = (number of size vectors) * replicas.
C5_NoTwinsOneScenarioPerSize ==
    cfg.numTwins = 0 =>
        Len(LP(1)) = Len(genPartitionSizes(cfg.replicas, cfg.partitions, 1)) * cfg.replicas

Call(e) == <<e.op, e.seed>>

SameCallsUpTo(i) == \A j \in 1..i : Call(hist[1][j]) = Call(hist[2][j])

SecondShuffle ==
    /\ Len(hist[1]) >= 1
    /\ Len(hist'[1]) = Len(hist[1]) + 1
    /\ hist[1][Len(hist[1])].op = "Shuffle"
    /\ hist'[1][Len(hist'[1])].op = "Shuffle"
    /\ hist'[1][Len(hist'[1])].seed = hist[1][Len(hist[1])].seed

\* C7 as stated: a second Shuffle(s) leaves the generator as the first left it.
C7_ShuffleIdempotent == [][SecondShuffle => gen'[1] = gen[1]]_vars

Count(x, sq) == Cardinality({i \in DOMAIN sq : sq[i] = x})

IsPermutation(a, b) ==
    /\ Len(a) = Len(b)
    /\ \A i \in DOMAIN a : Count(a[i], a) = Count(a[i], b)

\* C7 amended: a second Shuffle(s) leaves offsets, indices and roster as the
\* first left them and permutes LP once more (same view specs, new order).
C7_SecondShuffleKeepsOffsets ==
    [][SecondShuffle =>
         /\ gen'[1].offsets = gen[1].offsets
         /\ gen'[1].indices = gen[1].indices
         /\ gen'[1].allNodes = gen[1].allNodes
         /\ IsPermutation(gen'[1].leadersPartitions, gen[1].leadersPartitions)]_vars

\* Shuffle(s) was called twice in a row and LP is not in the order one call gives.
C7_Witness ==
    /\ Len(hist[1]) >= 2
    /\ hist[1][1].op = "Shuffle" /\ hist[1][2].op = "Shuffle"
    /\ hist[1][1].seed = hist[1][2].seed
    /\ cfg.rounds >= 1 /\ Len(LP(1)) >= 2
    /\ LP(1) # ShuffleGen(NewGenerator(cfg.replicas, cfg.numTwins, cfg.partitions,
                                       cfg.rounds), hist[1][1].seed).g.leadersPartitions

\* C8: with rounds = 0 every NextScenario call reports "no more".
C8_ZeroRoundsExhausted ==
    cfg.rounds = 0 => \A i \in DOMAIN Results(1) : Results(1)[i].kind = "nomore"

\* C9: with numTwins > replicas there is no usable generator: no NextScenario
\* call on it completes.
C9_TooManyTwinsRejected ==
    cfg.numTwins > cfg.replicas =>
        \A i \in DOMAIN Results(1) : Results(1)[i].kind = "panic"

NonIncreasing(v) == \A i \in 1..(Len(v) - 1) : v[i] >= v[i + 1]

SizeVectors(n, k, minSize) ==
    {v \in [1..k -> 0..n] : NonIncreasing(v) /\ SumSeq(v) = n /\ v[1] >= minSize}

NoDuplicates(sq) == \A i, j \in DOMAIN sq : i # j => sq[i] # sq[j]

\* C10: for n, k, minSize >= 1, genPartitionSizes(n, k, minSize) lists exactly
\* the non-increasing length-k vectors summing to n with s[0] >= minSize, once each.
C10_SizesExact ==
    sizeOut.done =>
        /\ SeqToSet(sizeOut.sizes) = SizeVectors(sizeIn.n, sizeIn.k, sizeIn.minSize)
        /\ NoDuplicates(sizeOut.sizes)

\* the partition scenarios PS the constructor builds for configuration c.
PS(c) ==
    LET a == assignIDs(c.replicas, c.numTwins)
    IN  genPartitionScenarios(a.twins, a.nodes, c.partitions, 1)

\* C11: LP lists (leader r, PS[p]) for p in order and r = 1..replicas with r
\* varying fastest, |LP| = |PS| * replicas, and every view of every emitted
\* scenario has its leader in 1..replicas.
C11_LeaderCross ==
    LET ps == PS(cfg)
        lp == LP(1)
    IN  /\ Len(lp) = Len(ps) * cfg.replicas
        /\ NumShuffle(1) = 0 =>
              \A p \in 1..Len(ps) : \A r \in 1..cfg.replicas :
                  lp[(p - 1) * cfg.replicas + r]
                      = [Leader |-> r, PartitionScenario |-> ps[p]]
        /\ \A i \in DOMAIN Results(1) :
              Results(1)[i].kind = "ok" =>
                  \A v \in DOMAIN Results(1)[i].views :
                      Results(1)[i].views[v].Leader \in 1..cfg.replicas

\* an unshuffled generator with several replicas and several partition
\* scenarios has emitted a scenario led by the last replica.
C11_Witness ==
    /\ NumShuffle(1) = 0
    /\ cfg.replicas >= 2
    /\ Len(PS(cfg)) >= 2
    /\ \E i \in DOMAIN Results(1) :
          /\ Results(1)[i].kind = "ok"
          /\ \E v \in DOMAIN Results(1)[i].views :
                Results(1)[i].views[v].Leader = cfg.replicas

Roster == gen[1].allNodes

Twinned(x) == \E j \in DOMAIN Roster : Roster[j] # x /\ Roster[j].ReplicaID = x.ReplicaID

NodesOf(r) == {j \in DOMAIN Roster : Roster[j].ReplicaID = r}

\* C12: for 1 <= numTwins <= replicas the roster has replicas + numTwins
\* NodeIds with distinct NetworkIds 1..replicas+numTwins increasing with the
\* ReplicaId; replicas 1..numTwins have two NodeIds with consecutive
\* NetworkIds, the others one; twinned NodeIds come first, in allocation order.
C12_Roster ==
    (1 <= cfg.numTwins /\ cfg.numTwins <= cfg.replicas) =>
        /\ Len(Roster) = cfg.replicas + cfg.numTwins
        /\ {Roster[j].NetworkID : j \in DOMAIN Roster} = 1..(cfg.replicas + cfg.numTwins)
        /\ \A i, j \in DOMAIN Roster :
              /\ i # j => Roster[i].NetworkID # Roster[j].NetworkID
              /\ Roster[i].ReplicaID < Roster[j].ReplicaID
                    => Roster[i].NetworkID < Roster[j].NetworkID
        /\ \A r \in 1..cfg.replicas :
              IF r <= cfg.numTwins
              THEN /\ Cardinality(NodesOf(r)) = 2
                   /\ \E i, j \in NodesOf(r) :
                         Roster[j].NetworkID = Roster[i].NetworkID + 1
              ELSE Cardinality(NodesOf(r)) = 1
        /\ \A j \in DOMAIN Roster : Twinned(Roster[j]) <=> j <= 2 * cfg.numTwins
        /\ \A i, j \in DOMAIN Roster :
              (i < j /\ (j <= 2 * cfg.numTwins \/ i > 2 * cfg.numTwins))
                  => Roster[i].NetworkID < Roster[j].NetworkID

\* a generator with two twinned replicas and one that is not twinned has
\* been iterated.
C12_Witness ==
    /\ cfg.numTwins = 2 /\ cfg.replicas = 3
    /\ Len(Roster) = 5
    /\ Results(1) # <<>>

\* value of an index vector as a base-n number, round 0 most significant.
RECURSIVE Val(_, _)
Val(ind, n) ==
    IF ind = <<>> THEN 0
    ELSE Val(SubSeq(ind, 1, Len(ind) - 1), n) * n + ind[Len(ind)]

LexLess(a, b) ==
    \E j \in DOMAIN a :
        /\ j \in DOMAIN b
        /\ a[j] < b[j]
        /\ \A l \in 1..(j - 1) : a[l] = b[l]

\* g.indices after the call recorded as hist[1][i].
IndicesAfter(i) == IF i < Len(hist[1]) THEN hist[1][i + 1].pre ELSE gen[1].indices

IsNext(i) == hist[1][i].op = "Next"

Emitted(i) == IsNext(i) /\ hist[1][i].res.kind = "ok"

\* the view of round r for index vector ind: LP[(ind[r] + offsets[r]) mod |LP|].
ViewAt(ind, r) ==
    LP(1)[((ind[r] + gen[1].offsets[r]) % Len(LP(1))) + 1]

\* C13: with rounds >= 1 (indices[rounds-1] exists), iteration starts at the
\* all-zero index vector; each successful call
\* returns the views of the current index vector and advances it by exactly
\* one as a base-|LP| number whose last digit is indices[rounds-1]; index
\* vectors of successive emitted scenarios increase lexicographically; without
\* a shuffle the first scenario has LP[0] in every view.
C13_Odometer ==
    cfg.rounds >= 1 =>
        /\ \A i \in DOMAIN hist[1] :
              (IsNext(i) /\ (i = 1 \/ ~IsNext(i - 1)))
                  => \A r \in DOMAIN hist[1][i].pre : hist[1][i].pre[r] = 0
        /\ \A i \in DOMAIN hist[1] :
              Emitted(i) =>
                  /\ Len(hist[1][i].res.views) = cfg.rounds
                  /\ \A r \in 1..cfg.rounds :
                        hist[1][i].res.views[r] = ViewAt(hist[1][i].pre, r)
                  /\ Len(IndicesAfter(i)) = cfg.rounds
                  /\ Val(IndicesAfter(i), Len(LP(1)))
                        = Val(hist[1][i].pre, Len(LP(1))) + 1
        /\ \A i, j \in DOMAIN hist[1] :
              (i < j /\ Emitted(i) /\ Emitted(j))
                  => LexLess(hist[1][i].pre, hist[1][j].pre)
        /\ (NumShuffle(1) = 0 /\ hist[1] # <<>> /\ Emitted(1))
              => \A r \in 1..cfg.rounds : hist[1][1].res.views[r] = LP(1)[1]

\* an unshuffled generator of two rounds has emitted scenarios across a carry:
\* the last digit went back to 0 and indices[0] moved to 1.
C13_Witness ==
    /\ cfg.rounds = 2
    /\ NumShuffle(1) = 0
    /\ \E i \in DOMAIN hist[1] :
          /\ Emitted(i) /\ hist[1][i].pre = <<1, 0>>
          /\ i > 1 /\ Emitted(i - 1) /\ hist[1][i - 1].pre[1] = 0
          /\ hist[1][i - 1].pre[2] = Len(LP(1)) - 1

\* C14: when NextScenario is called on a generator that is not exhausted and
\* has |LP| >= 1, every indices[i] and offsets[i] is in [0, |LP|), the call
\* does not fail, and the view it selects for round i is
\* LP[(indices[i] + offsets[i]) mod |LP|].
C14_IndexInRange ==
    \A i \in DOMAIN hist[1] :
        (IsNext(i) /\ Len(hist[1][i].pre) = cfg.rounds /\ Len(LP(1)) >= 1) =>
            /\ hist[1][i].res.kind # "panic"
            /\ Len(hist[1][i].p) = cfg.rounds
            /\ \A r \in 1..cfg.rounds :
                  /\ hist[1][i].pre[r] \in 0..(Len(LP(1)) - 1)
                  /\ gen[1].offsets[r] \in 0..(Len(LP(1)) - 1)
                  /\ hist[1][i].p[r] = ViewAt(hist[1][i].pre, r)

\* a call on a shuffled generator selected a view through the subtraction:
\* indices[r] + offsets[r] reached |LP|.
C14_Witness ==
    \E i \in DOMAIN hist[1] :
        /\ Emitted(i)
        /\ NumShuffle(1) >= 1
        /\ \E r \in 1..cfg.rounds :
              /\ gen[1].offsets[r] > 0
              /\ hist[1][i].pre[r] + gen[1].offsets[r] >= Len(LP(1))

\* this step is a NextScenario call on generator 1.
NextStep ==
    /\ Len(hist'[1]) = Len(hist[1]) + 1
    /\ hist'[1][Len(hist'[1])].op = "Next"

\* C17: a NextScenario call changes nothing of the generator but indices, and
\* a scenario it emits carries the roster as its nodes.
C17_OnlyIndicesChange ==
    [][NextStep =>
         /\ gen'[1].allNodes = gen[1].allNodes
         /\ gen'[1].leadersPartitions = gen[1].leadersPartitions
         /\ gen'[1].offsets = gen[1].offsets
         /\ gen'[1].rounds = gen[1].rounds
         /\ gen'[1].partitions = gen[1].partitions
         /\ gen'[2] = gen[2]
         /\ hist'[1][Len(hist'[1])].res.kind = "ok"
               => hist'[1][Len(hist'[1])].res.nodes = gen[1].allNodes]_vars

\* a shuffled generator with a non-zero offset has emitted several scenarios,
\* all with the roster as nodes, and its indices have moved.
C17_Witness ==
    /\ Len(Results(1)) >= 3
    /\ \A i \in DOMAIN Results(1) :
          Results(1)[i].kind = "ok" /\ Results(1)[i].nodes = gen[1].allNodes
    /\ \E r \in DOMAIN gen[1].offsets : gen[1].offsets[r] > 0
    /\ \E r \in DOMAIN gen[1].indices : gen[1].indices[r] > 0

\* number of twins that the pairs of ta place into partition index p.
Placements(ta, p) ==
    Cardinality({i \in DOMAIN ta : ta[i][1] = p})
        + Cardinality({i \in DOMAIN ta : ta[i][2] = p})

Fits(ta, sz) ==
    /\ \A i \in DOMAIN ta : ta[i][1] < Len(sz) /\ ta[i][2] < Len(sz)
    /\ \A p \in 0..(Len(sz) - 1) : Placements(ta, p) <= sz[p + 1]

\* C15: isValidTwinAssignment(ta, sz) is true exactly when every partition
\* index of ta is below k = len(sz) and no partition receives more twins over
\* all pairs than its size; the result is a plain boolean and the caller's sz
\* is as it was.
C15_ValidIffFits ==
    validOut.done =>
        /\ validOut.ok \in BOOLEAN
        /\ validOut.ok <=> Fits(validIn.ta, validIn.sz)
        /\ validOut.partitionSizes = validIn.sz

\* a rejection that only the accumulation over two pairs explains: all
\* indices are in range and each pair alone fits.
C15_Witness ==
    /\ validOut.done /\ ~validOut.ok
    /\ Len(validIn.ta) = 2
    /\ \A i \in DOMAIN validIn.ta : Fits(<<validIn.ta[i]>>, validIn.sz)

Builds(c) ==
    LET a == assignIDs(c.replicas, c.numTwins)
    IN  genPartitionScenarioBuilds(a.twins, a.nodes, c.partitions, 1)

NonTwins(c) == assignIDs(c.replicas, c.numTwins).nodes

\* C16: every partition scenario built from a size vector sz and a feasible
\* twin assignment has |partition[i]| = sz[i] in every slot (none in a slot of
\* size 0), so the partition sizes are non-increasing and sum to the size of
\* the roster, replicas + numTwins when numTwins <= replicas, and the cursor
\* into the non-twin list ends at the end of that list.
C16_PartitionSizes ==
    LET b  == Builds(cfg)
        ps == PS(cfg)
    IN  /\ ps = [s \in DOMAIN b |-> b[s].partitions]
        /\ \A s \in DOMAIN b :
              LET card == [i \in DOMAIN b[s].partitions |->
                              Cardinality(b[s].partitions[i])]
              IN  /\ Len(b[s].sizes) = cfg.partitions
                  /\ Len(b[s].partitions) = cfg.partitions
                  /\ isValidTwinAssignment(b[s].twinAssignment, b[s].sizes)
                  /\ \A i \in 1..cfg.partitions : card[i] = b[s].sizes[i]
                  /\ NonIncreasing(card)
                  /\ SumSeq(card) = Len(gen[1].allNodes)
                  /\ cfg.numTwins <= cfg.replicas
                        => SumSeq(card) = cfg.replicas + cfg.numTwins
                  /\ b[s].node = Len(NonTwins(cfg))

\* a generator whose scenarios include one with both twins of a replica in
\* the first slot and non-twin nodes only in the second, and one with an
\* empty second slot.
C16_Witness ==
    /\ cfg.partitions = 2 /\ cfg.numTwins = 1 /\ cfg.replicas = 3
    /\ \E s \in DOMAIN Builds(cfg) :
          /\ Builds(cfg)[s].twinAssignment = << <<0, 0>> >>
          /\ Builds(cfg)[s].sizes = <<2, 2>>
          /\ Builds(cfg)[s].partitions[2] = SeqToSet(NonTwins(cfg))
    /\ \E s \in DOMAIN Builds(cfg) : Builds(cfg)[s].partitions[2] = {}

\* C18: genPartitionSizes(n, k, minSize) returns for every n, k and minSize,
\* minSize = 0 included, without a runtime failure, and returns the empty
\* sequence when n = 0 or k = 0.
C18_Total ==
    sizeOut.done =>
        /\ sizeOut.kind = "ok"
        /\ (sizeIn.n = 0 \/ sizeIn.k = 0) => sizeOut.sizes = <<>>

\* C19: lastVote never decreases; OnPropose signs a vote only for a block
\* whose view is above lastVote at that moment, so the views voted in are
\* strictly increasing (one vote per view at most), and no vote is for a view
\* at or below one given to StopVoting before.
C19_VoteOnlyAhead ==
    [][/\ cs'.lastVote >= cs.lastVote
       /\ obs'.voted # obs.voted =>
             LET view == obs'.voted[Len(obs'.voted)]
             IN  /\ obs'.voted = Append(obs.voted, view)
                 /\ view > cs.lastVote
                 /\ cs'.lastVote = view
                 /\ view > obs.stopped
                 /\ \A i \in DOMAIN obs.voted : obs.voted[i] < view]_vars

\* StopVoting moved lastVote to a view above 0 and the replica then voted in
\* a later view.
C19_Witness ==
    /\ obs.stopped >= 1
    /\ obs.voted # <<>>
    /\ obs.voted[Len(obs.voted)] > obs.stopped
    /\ cs.lastVote = obs.voted[Len(obs.voted)]

\* C20: with aggregate QCs enabled and an AggregateQC in the proposal,
\* OnPropose votes only if the AggregateQC verified and the block's QC equals
\* the highQC taken from it; otherwise it returns without a vote.
C20_AggQCGuardsVote ==
    (mods.useAggQC /\ obs.last.agg /\ obs.last.kind = "vote")
        => (obs.last.aggOk /\ obs.last.qcEq)

\* the stored block with hash h.
BlockOf(h) == CHOOSE b \in mods.blocks : b.hash = h

\* C21: the blocks handed to the executor, in the order of the Exec calls
\* (bExec is set to each in turn), have strictly increasing views, so
\* bExec's view never decreases; none is executed twice; and a block is
\* never executed before one of its stored ancestors.
C21_ExecOrder ==
    \A i, j \in DOMAIN mods.executed :
        i < j =>
            /\ BlockOf(mods.executed[i]).view < BlockOf(mods.executed[j]).view
            /\ mods.executed[i] # mods.executed[j]
            /\ BlockOf(mods.executed[j])
                   \notin Ancestors(mods.blocks, BlockOf(mods.executed[i]))

====
